---- MODULE Spec2Model ----
(***************************************************************************)
(* Experiment registry, director control loop and per-envoy assignment     *)
(* queues of openfl.experimental.component.director.                       *)
(*                                                                         *)
(* The director runs on one asyncio event loop: code between two awaits    *)
(* that really suspend runs atomically.  Each action below is one such     *)
(* segment of a coroutine.  `await queue.put(...)` on the unbounded        *)
(* asyncio.Queue and a `get_next_experiment` whose condition already holds *)
(* do not suspend, so they belong to the segment that contains them.       *)
(***************************************************************************)
EXTENDS Integers, Sequences, FiniteSets, TLC

\* ------------------------------------------------------------------ bounds
MaxExperiments == 2
RoundsToTrain == 1
NCallers == 2
MaxTicks == 3
envoy_health_check_period == 60
DEFAULT_RETRY_TIMEOUT_IN_SECONDS == 5
\* max_buffer_size, 2 * 1024 * 1024 bytes in the code, and the longest archive
max_buffer_size == 2
MaxArchiveLen == 4

\* ------------------------------------------------------------------ values
Names == {"e1", "e2"}
Workers == {"w1", "w2"}
CollabLists == {<<"w1">>, <<"w1", "w2">>}
Pollers2 == {"w1"}
PollCollabs == {<<"w1">>}
RegistryCollabs == {<<"w1", "w2">>}
None == "None"

PENDING == "pending"
FINISHED == "finished"
IN_PROGRESS == "in_progress"
FAILED == "failed"
REJECTED == "rejected"
Terminal == {FINISHED, FAILED, REJECTED}

VARIABLES
    exps,        \* the Experiment objects ever constructed, in construction order
    dict,        \* ExperimentsRegistry.__dict: name -> object (0: no key)
    pending,     \* ExperimentsRegistry.__pending_experiments
    active,      \* ExperimentsRegistry.__active_experiment_name
    archived,    \* ExperimentsRegistry.__archived_experiments
    loopPc,      \* per caller of get_next_experiment: where the coroutine is
    loopExp,     \* per caller: the object yielded by get_next_experiment (0: none)
    taskSt,      \* per caller: state of the task running Experiment.start
    flow_status, \* Director._flow_status
    col_exp,     \* Director.col_exp
    queues,      \* Director.col_exp_queues
    pollPc,      \* per envoy: state of its wait_experiment call
    pollRet,     \* per envoy: what its last wait_experiment call returned
    pollPath,    \* per envoy: how that call returned ("fast": lines 114-117, "queue")
    yielded,     \* history: the names yielded by get_next_experiment, in order
    pollPc2,     \* per envoy: state of a second, concurrent wait_experiment call
    pollRet2,    \* per envoy: what that second call returned
    envoy_registry, \* Director._envoy_registry (None: no key)
    now,         \* time.time(), in seconds
    reply,       \* the last call of the director's request/response API and its outcome
    flowPc,      \* state of a get_flow_status call
    flowRet,     \* what that call returned
    envPc,       \* per envoy process: where Envoy.start / Envoy.run is
    hcPc,        \* per envoy process: state of the send_health_check thread
    connectRes,  \* per envoy process: outcome of the initial connect_envoy call
    is_experiment_running, \* per envoy process: Envoy.is_experiment_running
    hcTimeout,   \* per envoy process: `timeout` of send_health_check
    archive,     \* a chunked transfer: the bytes of the sender's archive file
    sendPos,     \* the sender's read position in it
    tamper,      \* the number of the chunk sent with a wrong size field (0: none)
    stream,      \* the chunks sent and not yet received
    written,     \* the bytes the receiver has written to its file
    xferPc,      \* the receiver: "idle", "open", "failed", "done"
    xferSide,    \* the receiver: "director" (SetNewExperiment) or "envoy"
    tls,         \* DirectorGRPCServer.tls
    peer_cn,     \* the request's context: the peer certificate's common name
    headers,     \* the request's context: its metadata, a dict
    caller       \* SetNewExperiment's local `caller`

vars == <<exps, dict, pending, active, archived, loopPc, loopExp, taskSt,
          flow_status, col_exp, queues, pollPc, pollRet, pollPath, yielded,
          pollPc2, pollRet2, envoy_registry, now, reply, flowPc, flowRet,
          envPc, hcPc, connectRes, is_experiment_running, hcTimeout,
          archive, sendPos, tamper, stream, written, xferPc, xferSide,
          tls, peer_cn, headers, caller>>

flowVars == <<flowPc, flowRet>>
envoyProcVars == <<envPc, hcPc, connectRes, is_experiment_running, hcTimeout>>
xferVars == <<archive, sendPos, tamper, stream, written, xferPc, xferSide>>
contextVars == <<tls, peer_cn, headers, caller>>
procVars == <<flowVars, envoyProcVars, xferVars, contextVars>>
extVars == <<pollPc2, pollRet2, envoy_registry, now, reply, procVars>>
poll2Vars == <<pollPc2, pollRet2>>
envoyVars == <<envoy_registry, now>>

regVars == <<dict, pending, active, archived>>
loopVars == <<loopPc, loopExp, taskSt, flow_status>>
pollVars == <<col_exp, pollPc, pollRet, pollPath>>

Callers == DOMAIN loopPc

\* ------------------------------------------------------------- Experiment
Experiment(n, c) ==
    [name |-> n, collaborators |-> c, status |-> PENDING,
     aggregator |-> FALSE, current_round |-> 0]

RemoveAt(s, i) == SubSeq(s, 1, i - 1) \o SubSeq(s, i + 1, Len(s))

Range(s) == {s[i] : i \in DOMAIN s}

\* ------------------------------------------------------ ExperimentsRegistry
RegistryInit ==
    /\ active = None
    /\ pending = <<>>
    /\ archived = <<>>
    /\ dict = [n \in Names |-> 0]

\* add: the map write and the append
add_dict(d, n, o) == [d EXCEPT ![n] = o]
add_pending(p, n) == Append(p, n)

\* get_next_experiment: the condition that ends the wait
CanAcquireAnyPending(act, pend) == pend # <<>>
CanAcquire(act, pend) == act = None /\ pend # <<>>

\* get_next_experiment: pending_experiments.pop(0)
PopIndexLast(p) == Len(p)
PopIndex(p) == 1

\* finish_active: archived.insert(0, active name)
finish_active_keep(arch, act) == arch
finish_active_append(arch, act) == Append(arch, act)
finish_active(arch, act) == <<act>> \o arch

\* scope exit of get_next_experiment when the scope raised: the finally clause
ExitOnRaiseSkip(arch, act) == <<arch, act>>
ExitOnRaise(arch, act) == <<finish_active(arch, act), None>>

\* ------------------------------------------------------------------ Director
\* what a call of the request/response API leaves behind: the operation, its
\* arguments, the time of the call, and the returned value or the raised error
Reply(op, who, flag, ok, err, period, envoys, obj) ==
    [op |-> op, who |-> who, flag |-> flag, at |-> now, ok |-> ok, err |-> err,
     period |-> period, envoys |-> envoys, obj |-> obj]

NoReply ==
    [op |-> "none", who |-> None, flag |-> FALSE, at |-> 0, ok |-> FALSE, err |-> None,
     period |-> 0, envoys |-> {}, obj |-> 0]

RECURSIVE FanOutButLast(_, _, _)
FanOutButLast(q, cols, name) ==
    IF Len(cols) <= 1 THEN q
    ELSE FanOutButLast([q EXCEPT ![Head(cols)] = Append(@, name)], Tail(cols), name)

RECURSIVE FanOut(_, _, _)
FanOut(q, cols, name) ==
    IF cols = <<>> THEN q
    ELSE FanOut([q EXCEPT ![Head(cols)] = Append(@, name)], Tail(cols), name)

DirectorInit ==
    /\ flow_status = "[]"
    /\ col_exp = [w \in Workers |-> None]
    /\ queues = [w \in Workers |-> <<>>]
    /\ pollPc = [w \in Workers |-> "idle"]
    /\ pollRet = [w \in Workers |-> None]
    /\ pollPath = [w \in Workers |-> "none"]
    /\ pollPc2 = [w \in Workers |-> "idle"]
    /\ pollRet2 = [w \in Workers |-> None]
    /\ envoy_registry = [w \in {} |-> 0]
    /\ now = 0
    /\ reply = NoReply
    /\ flowPc = "idle"
    /\ flowRet = None

\* Envoy.__init__, envoy.py:23-57, for every envoy process
EnvoyInit ==
    /\ envPc = [e \in Workers |-> "init"]
    /\ hcPc = [e \in Workers |-> "not_started"]
    /\ connectRes = [e \in Workers |-> "none"]
    /\ is_experiment_running = [e \in Workers |-> FALSE]
    /\ hcTimeout = [e \in Workers |-> DEFAULT_RETRY_TIMEOUT_IN_SECONDS]

\* no transfer under way
NoTransfer ==
    /\ archive = <<>>
    /\ sendPos = 0
    /\ tamper = 0
    /\ stream = <<>>
    /\ written = <<>>
    /\ xferPc = "idle"
    /\ xferSide = "director"
    /\ tls = FALSE
    /\ peer_cn = None
    /\ headers = [k \in {} |-> None]
    /\ caller = None

Init ==
    /\ exps = <<>>
    /\ RegistryInit
    /\ DirectorInit
    /\ EnvoyInit
    /\ NoTransfer
    /\ loopPc = [l \in {1} |-> "get_next"]
    /\ loopExp = [l \in {1} |-> 0]
    /\ taskSt = [l \in {1} |-> "none"]
    /\ yielded = <<>>

\* ExperimentsRegistry.add(Experiment(name=n, collaborators=c, ...))
Add(n, c) ==
    /\ Len(exps) < MaxExperiments
    /\ exps' = Append(exps, Experiment(n, c))
    /\ dict' = add_dict(dict, n, Len(exps) + 1)
    /\ pending' = add_pending(pending, n)
    /\ UNCHANGED <<active, archived, loopVars, pollVars, queues, yielded>>
    /\ UNCHANGED extVars

\* One pass of the control loop from the wait in get_next_experiment to
\* `await run_aggregator_future`: the pop, the lookup, create_task, the fan-out.
LoopAcquire(l) ==
    /\ loopPc[l] = "get_next"
    /\ CanAcquire(active, pending)
    /\ LET i == PopIndex(pending)
           name == pending[i]
           o == dict[name]
       IN /\ pending' = RemoveAt(pending, i)
          /\ IF o = 0
             THEN \* KeyError in `yield self.active_experiment`; finally; line 85 raises
                  /\ archived' = ExitOnRaise(archived, name)[1]
                  /\ active' = ExitOnRaise(archived, name)[2]
                  /\ loopPc' = [loopPc EXCEPT ![l] = "raised"]
                  /\ UNCHANGED <<loopExp, taskSt, queues, yielded>>
             ELSE /\ active' = name
                  /\ loopExp' = [loopExp EXCEPT ![l] = o]
                  /\ taskSt' = [taskSt EXCEPT ![l] = "created"]
                  /\ queues' = FanOut(queues, exps[o].collaborators, exps[o].name)
                  /\ yielded' = Append(yielded, exps[o].name)
                  /\ loopPc' = [loopPc EXCEPT ![l] = "await_future"]
                  /\ UNCHANGED archived
    /\ UNCHANGED <<exps, dict, flow_status, pollVars>>
    /\ UNCHANGED extVars

\* Experiment.start: the status the `except Exception` handler leaves
OnExceptionKeep(status) == status
OnException(status) == FAILED

\* Experiment.start, first segment, when workspace setup or aggregator creation
\* raises: IN_PROGRESS is set and the handler runs before anything else can
StartSetupFail(l) ==
    /\ taskSt[l] = "created"
    /\ exps' = [exps EXCEPT ![loopExp[l]].status = OnException(IN_PROGRESS)]
    /\ taskSt' = [taskSt EXCEPT ![l] = "done_exc"]
    /\ UNCHANGED <<regVars, loopPc, loopExp, flow_status, pollVars, queues, yielded>>
    /\ UNCHANGED extVars

\* Experiment.start, first segment, up to `await asyncio.gather(...)`
StartRun(l) ==
    /\ taskSt[l] = "created"
    /\ exps' = [exps EXCEPT ![loopExp[l]].status = IN_PROGRESS,
                            ![loopExp[l]].aggregator = TRUE,
                            ![loopExp[l]].current_round = 0]
    /\ taskSt' = [taskSt EXCEPT ![l] = "running"]
    /\ UNCHANGED <<regVars, loopPc, loopExp, flow_status, pollVars, queues, yielded>>
    /\ UNCHANGED extVars

\* the aggregator completes a round while the run is awaited
RunRound(l) ==
    /\ taskSt[l] = "running"
    /\ exps[loopExp[l]].current_round < RoundsToTrain
    /\ exps' = [exps EXCEPT ![loopExp[l]].current_round = @ + 1]
    /\ UNCHANGED <<regVars, loopVars, pollVars, queues, yielded>>
    /\ UNCHANGED extVars

\* Experiment.start after the gather returned; run_experiment returns once the
\* aggregator has trained its rounds
StartFinish(l) ==
    /\ taskSt[l] = "running"
    /\ exps[loopExp[l]].current_round = RoundsToTrain
    /\ exps' = [exps EXCEPT ![loopExp[l]].status = FINISHED]
    /\ taskSt' = [taskSt EXCEPT ![l] = "done"]
    /\ UNCHANGED <<regVars, loopPc, loopExp, flow_status, pollVars, queues, yielded>>
    /\ UNCHANGED extVars

\* Experiment.start when the gather raised
StartFail(l) ==
    /\ taskSt[l] = "running"
    /\ exps' = [exps EXCEPT ![loopExp[l]].status = OnException(@)]
    /\ taskSt' = [taskSt EXCEPT ![l] = "done_exc"]
    /\ UNCHANGED <<regVars, loopPc, loopExp, flow_status, pollVars, queues, yielded>>
    /\ UNCHANGED extVars

\* the loop resumes from `await run_aggregator_future` and leaves the scope
LoopExit(l) ==
    /\ loopPc[l] = "await_future"
    /\ taskSt[l] \in {"done", "done_exc"}
    /\ flow_status' = None
    /\ archived' = finish_active(archived, active)
    /\ active' = None
    /\ loopPc' = [loopPc EXCEPT ![l] = "get_next"]
    /\ taskSt' = [taskSt EXCEPT ![l] = "none"]
    /\ UNCHANGED <<exps, dict, pending, loopExp, pollVars, queues, yielded>>
    /\ UNCHANGED extVars

\* task.cancel() on the control-loop coroutine while it is suspended: in the wait
\* of get_next_experiment nothing was acquired; at `await run_aggregator_future`
\* the awaited task is cancelled with it (CancelledError is no Exception, so
\* Experiment.start sets no status) and the finally clause of the scope runs.
LoopCancel(l) ==
    /\ loopPc[l] \in {"get_next", "await_future"}
    /\ loopPc' = [loopPc EXCEPT ![l] = "cancelled"]
    /\ IF loopPc[l] = "get_next"
       THEN UNCHANGED <<archived, active, taskSt>>
       ELSE /\ archived' = ExitOnRaise(archived, active)[1]
            /\ active' = ExitOnRaise(archived, active)[2]
            /\ taskSt' = [taskSt EXCEPT ![l] = IF @ \in {"done", "done_exc"} THEN @ ELSE "cancelled"]
    /\ UNCHANGED <<exps, dict, pending, loopExp, flow_status, pollVars, queues, yielded>>
    /\ UNCHANGED extVars

\* ExperimentsRegistry.remove(name)
RemoveFirst(s, n) ==
    IF n \in Range(s)
    THEN RemoveAt(s, CHOOSE i \in DOMAIN s : s[i] = n /\ \A j \in 1..(i - 1) : s[j] # n)
    ELSE s

Remove(n) ==
    /\ active' = IF active = n THEN None ELSE active
    /\ pending' = RemoveFirst(pending, n)
    /\ archived' = RemoveFirst(archived, n)
    /\ dict' = [dict EXCEPT ![n] = 0]
    /\ UNCHANGED <<exps, loopVars, pollVars, queues, yielded>>
    /\ UNCHANGED extVars

\* ------------------------------------------------- Director.wait_experiment
\* the queue wait_experiment reads: col_exp_queues[envoy_name]
OtherWorker(w) == CHOOSE v \in Workers : v # w
QueueKeyOther(w) == OtherWorker(w)
QueueKey(w) == w

\* line 121: queue.get() takes the head of the FIFO away
queue_get_peek(q) == q
queue_get(q) == Tail(q)

\* lines 112-117: the recorded experiment is in the registry
HasRecorded(w) == col_exp[w] # None /\ dict[col_exp[w]] # 0

\* wait_experiment from its call to its first suspension or its return
PollCall(w) ==
    /\ pollPc[w] \in {"idle", "failed"}
    /\ IF HasRecorded(w) /\ ~exps[dict[col_exp[w]]].aggregator
       THEN \* experiment.aggregator is None: AttributeError
            /\ pollPc' = [pollPc EXCEPT ![w] = "failed"]
            /\ pollRet' = [pollRet EXCEPT ![w] = None]
            /\ pollPath' = [pollPath EXCEPT ![w] = "none"]
            /\ UNCHANGED <<col_exp, queues>>
       ELSE IF HasRecorded(w) /\ exps[dict[col_exp[w]]].current_round < RoundsToTrain
       THEN /\ pollPc' = [pollPc EXCEPT ![w] = "idle"]
            /\ pollRet' = [pollRet EXCEPT ![w] = col_exp[w]]
            /\ pollPath' = [pollPath EXCEPT ![w] = "fast"]
            /\ UNCHANGED <<col_exp, queues>>
       ELSE LET k == QueueKey(w) IN
            IF queues[k] = <<>>
            THEN /\ col_exp' = [col_exp EXCEPT ![w] = None]
                 /\ pollPc' = [pollPc EXCEPT ![w] = "blocked"]
                 /\ pollRet' = [pollRet EXCEPT ![w] = None]
                 /\ pollPath' = [pollPath EXCEPT ![w] = "none"]
                 /\ UNCHANGED queues
            ELSE /\ col_exp' = [col_exp EXCEPT ![w] = Head(queues[k])]
                 /\ queues' = [queues EXCEPT ![k] = queue_get(@)]
                 /\ pollPc' = [pollPc EXCEPT ![w] = "idle"]
                 /\ pollRet' = [pollRet EXCEPT ![w] = Head(queues[k])]
                 /\ pollPath' = [pollPath EXCEPT ![w] = "queue"]
    /\ UNCHANGED <<exps, regVars, loopVars, yielded>>
    /\ UNCHANGED extVars

\* wait_experiment resumes from `await queue.get()`
PollWake(w) ==
    /\ pollPc[w] = "blocked"
    /\ LET k == QueueKey(w) IN
       /\ queues[k] # <<>>
       /\ col_exp' = [col_exp EXCEPT ![w] = Head(queues[k])]
       /\ queues' = [queues EXCEPT ![k] = queue_get(@)]
       /\ pollRet' = [pollRet EXCEPT ![w] = Head(queues[k])]
    /\ pollPc' = [pollPc EXCEPT ![w] = "idle"]
    /\ pollPath' = [pollPath EXCEPT ![w] = "wake"]
    /\ UNCHANGED <<exps, regVars, loopVars, yielded>>
    /\ UNCHANGED extVars

\* line 121: what cancelling a call suspended in queue.get() leaves in the queue
cancel_get_drop(q) == IF q = <<>> THEN q ELSE Tail(q)
cancel_get(q) == q

\* task.cancel() on a wait_experiment(W) call suspended in `await queue.get()`:
\* line 119 has cleared the recorded assignment, line 122 is never reached
PollCancel(w) ==
    /\ pollPc[w] = "blocked"
    /\ pollPc' = [pollPc EXCEPT ![w] = "cancelled"]
    /\ queues' = [queues EXCEPT ![QueueKey(w)] = cancel_get(@)]
    /\ UNCHANGED <<exps, regVars, loopVars, col_exp, pollRet, pollPath, yielded>>
    /\ UNCHANGED extVars

\* a second wait_experiment(W) call in flight next to the first (lines 103-124)
PollCall2(w) ==
    /\ pollPc2[w] \in {"idle", "failed"}
    /\ IF HasRecorded(w) /\ ~exps[dict[col_exp[w]]].aggregator
       THEN /\ pollPc2' = [pollPc2 EXCEPT ![w] = "failed"]
            /\ pollRet2' = [pollRet2 EXCEPT ![w] = None]
            /\ UNCHANGED <<col_exp, queues>>
       ELSE IF HasRecorded(w) /\ exps[dict[col_exp[w]]].current_round < RoundsToTrain
       THEN /\ pollPc2' = [pollPc2 EXCEPT ![w] = "idle"]
            /\ pollRet2' = [pollRet2 EXCEPT ![w] = col_exp[w]]
            /\ UNCHANGED <<col_exp, queues>>
       ELSE LET k == QueueKey(w) IN
            IF queues[k] = <<>>
            THEN /\ col_exp' = [col_exp EXCEPT ![w] = None]
                 /\ pollPc2' = [pollPc2 EXCEPT ![w] = "blocked"]
                 /\ pollRet2' = [pollRet2 EXCEPT ![w] = None]
                 /\ UNCHANGED queues
            ELSE /\ col_exp' = [col_exp EXCEPT ![w] = Head(queues[k])]
                 /\ queues' = [queues EXCEPT ![k] = queue_get(@)]
                 /\ pollPc2' = [pollPc2 EXCEPT ![w] = "idle"]
                 /\ pollRet2' = [pollRet2 EXCEPT ![w] = Head(queues[k])]
    /\ UNCHANGED <<exps, regVars, loopVars, yielded, pollPc, pollRet, pollPath>>
    /\ UNCHANGED <<envoyVars, reply>>
    /\ UNCHANGED procVars

\* the second call resumes from `await queue.get()`
PollWake2(w) ==
    /\ pollPc2[w] = "blocked"
    /\ LET k == QueueKey(w) IN
       /\ queues[k] # <<>>
       /\ col_exp' = [col_exp EXCEPT ![w] = Head(queues[k])]
       /\ queues' = [queues EXCEPT ![k] = queue_get(@)]
       /\ pollRet2' = [pollRet2 EXCEPT ![w] = Head(queues[k])]
    /\ pollPc2' = [pollPc2 EXCEPT ![w] = "idle"]
    /\ UNCHANGED <<exps, regVars, loopVars, yielded, pollPc, pollRet, pollPath>>
    /\ UNCHANGED <<envoyVars, reply>>
    /\ UNCHANGED procVars

\* ------------------------------------------------------------ flow status
\* line 94: `not self._flow_status` is false only for a non-empty value
Truthy(v) == v \notin {None, "[]"}

\* line 98: the stored pair is taken apart; line 99: the reset
flow_reset(v) == "[]"

\* get_flow_status, lines 87-101: one test of the stored flow status; the call
\* sleeps and tests again, or takes the pair, resets the stored value and returns
GetFlowStatus ==
    /\ flowPc \in {"idle", "sleeping"}
    /\ IF Truthy(flow_status)
       THEN /\ flowRet' = flow_status
            /\ flow_status' = flow_reset(flow_status)
            /\ flowPc' = "returned"
       ELSE /\ flowPc' = "sleeping"
            /\ UNCHANGED <<flowRet, flow_status>>
    /\ UNCHANGED <<exps, regVars, loopPc, loopExp, taskSt, pollVars, queues, yielded,
                   poll2Vars, envoyVars, reply, envoyProcVars, xferVars, contextVars>>

\* ------------------------------------------------------------ envoy registry
\* lines 183, 222: 2 * self.envoy_health_check_period
valid_duration == 2 * envoy_health_check_period

\* lines 180-185: the record acknowledge_envoys stores
NewRecord ==
    [is_online |-> TRUE, is_experiment_running |-> FALSE, last_updated |-> now,
     valid_duration |-> valid_duration]

\* line 180: self._envoy_registry[envoy_name] = {...}
setitem_fresh(reg, w, rec) == [v \in {w} |-> rec]
setitem(reg, w, rec) == [v \in DOMAIN reg \cup {w} |-> IF v = w THEN rec ELSE reg[v]]

acknowledged_all(reg, w) == [v \in DOMAIN reg \cup {w} |-> NewRecord]
acknowledged_setdefault(reg, w) == IF w \in DOMAIN reg THEN reg ELSE setitem(reg, w, NewRecord)
acknowledged(reg, w) == setitem(reg, w, NewRecord)

\* line 216: self._envoy_registry.get(envoy_name), the empty set standing for None
registry_get_default(w) ==
    IF w \in DOMAIN envoy_registry THEN {envoy_registry[w]} ELSE {NewRecord}
registry_get(w) == {envoy_registry[v] : v \in DOMAIN envoy_registry \cap {w}}

\* lines 220-223; line 220 is an annotation and assigns nothing
updated_stale(shard_info, r) ==
    [shard_info EXCEPT !.is_experiment_running = r, !.valid_duration = valid_duration]
updated(shard_info, r) ==
    [shard_info EXCEPT !.is_experiment_running = r,
                       !.valid_duration = valid_duration,
                       !.last_updated = now]

\* line 194: list(self._envoy_registry.keys())
registry_keys == DOMAIN envoy_registry

\* acknowledge_envoys(envoy_name), lines 173-186
Acknowledge(w) ==
    /\ envoy_registry' = acknowledged(envoy_registry, w)
    \* flag: a record with the running flag set was there before the call
    /\ reply' = Reply("acknowledge_envoys", w,
                      w \in DOMAIN envoy_registry /\ envoy_registry[w].is_experiment_running,
                      TRUE, None, 0, {}, 0)
    /\ UNCHANGED <<exps, regVars, loopVars, pollVars, queues, flow_status, yielded, poll2Vars, now>>
    /\ UNCHANGED procVars

\* update_envoy_status(envoy_name, is_experiment_running), lines 197-225
UpdateEnvoyStatus(w, r) ==
    /\ LET shard_info == registry_get(w) IN
       IF shard_info = {}
       THEN /\ reply' = Reply("update_envoy_status", w, r, FALSE, "EnvoyNotFoundError", 0, {}, 0)
            /\ UNCHANGED envoy_registry
       ELSE /\ envoy_registry' =
                  setitem(envoy_registry, w, updated(CHOOSE x \in shard_info : TRUE, r))
            /\ reply' = Reply("update_envoy_status", w, r, TRUE, None,
                              envoy_health_check_period, {}, 0)
    /\ UNCHANGED <<exps, regVars, loopVars, pollVars, queues, flow_status, yielded, poll2Vars, now>>
    /\ UNCHANGED procVars

\* get_envoys(), lines 188-195
GetEnvoys ==
    /\ reply' = Reply("get_envoys", None, FALSE, TRUE, None, 0, registry_keys, 0)
    /\ UNCHANGED <<exps, regVars, loopVars, pollVars, queues, flow_status, yielded, poll2Vars,
                   envoyVars>>
    /\ UNCHANGED procVars

\* time.time() moves on by one health-check period
Tick ==
    /\ now < MaxTicks * envoy_health_check_period
    /\ now' = now + envoy_health_check_period
    /\ UNCHANGED <<exps, regVars, loopVars, pollVars, queues, flow_status, yielded, poll2Vars,
                   envoy_registry, reply>>
    /\ UNCHANGED procVars

\* ------------------------------------------------------------ envoy process
\* everything but the envoy processes and the director's envoy registry
directorVars ==
    <<exps, regVars, loopVars, pollVars, queues, yielded, poll2Vars, now, reply, flowVars,
      xferVars, contextVars>>

\* the methods DirectorClient defines (director_client.py:51-175)
ClientMethods ==
    {"connect_envoy", "wait_experiment", "get_experiment_data", "_get_experiment_data",
     "set_new_experiment", "_get_experiment_info", "get_envoys", "get_flow_status"}

\* envoy.py:153: `if is_accepted`
is_accepted_any(res) == TRUE
is_accepted(res) == res = "accepted"

\* Envoy.start, envoy.py:145-160; res is what connect_envoy did: raised, or
\* returned response.accepted. An accepted connect is the director's
\* acknowledge_envoys; the heartbeat thread is submitted, then run() is entered.
EnvoyStart(e, res) ==
    /\ envPc[e] = "init"
    /\ connectRes' = [connectRes EXCEPT ![e] = res]
    /\ envoy_registry' = IF res = "accepted" THEN acknowledged(envoy_registry, e)
                                              ELSE envoy_registry
    /\ IF res # "raised" /\ is_accepted(res)
       THEN /\ hcPc' = [hcPc EXCEPT ![e] = "running"]
            /\ envPc' = [envPc EXCEPT ![e] = "wait"]
       ELSE \* sys.exit(1), lines 151 and 160
            /\ envPc' = [envPc EXCEPT ![e] = "exit1"]
            /\ UNCHANGED hcPc
    /\ UNCHANGED <<directorVars, is_experiment_running, hcTimeout>>

\* Envoy.run, lines 62-69: wait_experiment and get_experiment_data (which only
\* opens the lazy response stream) return, or one of them raises and the
\* handler logs and reaches time.sleep(5)
EnvoyWait(e, ok) ==
    /\ envPc[e] = "wait"
    /\ envPc' = [envPc EXCEPT ![e] = IF ok THEN "save" ELSE "backoff"]
    /\ UNCHANGED <<directorVars, envoy_registry, hcPc, connectRes, is_experiment_running,
                   hcTimeout>>

\* lines 68-69: the sleep ends, `continue`
EnvoyBackoff(e) ==
    /\ envPc[e] = "backoff"
    /\ envPc' = [envPc EXCEPT ![e] = "wait"]
    /\ UNCHANGED <<directorVars, envoy_registry, hcPc, connectRes, is_experiment_running,
                   hcTimeout>>

\* line 70: _save_data_stream_to_file(data_stream), in neither try block: it
\* returns the path, or the exception it raises (a broken chunk, an RPC error
\* while the stream is read) leaves run() and start()
EnvoySave(e, ok) ==
    /\ envPc[e] = "save"
    /\ envPc' = [envPc EXCEPT ![e] = IF ok THEN "train" ELSE "terminated"]
    /\ UNCHANGED <<directorVars, envoy_registry, hcPc, connectRes, is_experiment_running,
                   hcTimeout>>

\* lines 83-84: `finally: self.is_experiment_running = False`, the flag after
\* the try statement; exc tells whether the body raised
finally_flag_unless_raised(flag, exc) == IF exc THEN flag ELSE FALSE
finally_flag(flag, exc) == FALSE

\* lines 72-79: the workspace is entered and training starts, or entering it
\* raises: the handler logs, the finally clause runs, the loop goes on
EnvoyTrainBegin(e, ok) ==
    /\ envPc[e] = "train"
    /\ envPc' = [envPc EXCEPT ![e] = IF ok THEN "training" ELSE "wait"]
    /\ is_experiment_running' =
          [is_experiment_running EXCEPT
              ![e] = IF ok THEN TRUE ELSE finally_flag(is_experiment_running[e], TRUE)]
    /\ UNCHANGED <<directorVars, envoy_registry, hcPc, connectRes, hcTimeout>>

\* lines 79-84: _run_collaborator returns or raises; either way the flag is
\* cleared and the loop goes back to wait_experiment, with no sleep
EnvoyTrainEnd(e, ok) ==
    /\ envPc[e] = "training"
    /\ envPc' = [envPc EXCEPT ![e] = "wait"]
    /\ is_experiment_running' =
          [is_experiment_running EXCEPT ![e] = finally_flag(is_experiment_running[e], ~ok)]
    /\ UNCHANGED <<directorVars, envoy_registry, hcPc, connectRes, hcTimeout>>

\* Envoy.send_health_check, lines 105-120, one pass of its loop up to the sleep:
\* the attribute lookup self.director_client.send_health_check, then the call
\* against the director's update_envoy_status, then the EnvoyNotFoundError
\* handler's connect_envoy
HealthCheck(e) ==
    /\ hcPc[e] = "running"
    /\ IF "send_health_check" \notin ClientMethods
       THEN \* AttributeError: no handler, the thread's function ends
            /\ hcPc' = [hcPc EXCEPT ![e] = "terminated"]
            /\ UNCHANGED <<envoy_registry, hcTimeout>>
       ELSE LET shard_info == registry_get(e) IN
            IF shard_info = {}
            THEN /\ envoy_registry' = acknowledged(envoy_registry, e)
                 /\ UNCHANGED <<hcPc, hcTimeout>>
            ELSE /\ envoy_registry' =
                       setitem(envoy_registry, e,
                               updated(CHOOSE x \in shard_info : TRUE, is_experiment_running[e]))
                 /\ hcTimeout' = [hcTimeout EXCEPT ![e] = envoy_health_check_period]
                 /\ UNCHANGED hcPc
    /\ UNCHANGED <<directorVars, envPc, connectRes, is_experiment_running>>

\* ------------------------------------------------------------ admission
\* Experiment.__init__'s keyword-only parameters (experiment.py:33-41)
InitKeywords == {"name", "archive_path", "archive_data", "collaborators", "plan_path"}

\* those without a default
RequiredKeywords == {"name", "archive_path", "archive_data", "collaborators"}

\* the keywords set_new_experiment passes (director.py:144-151)
CallKeywords == {"name", "archive_path", "collaborators", "users", "sender", "plan_path"}

\* Python's binding of a keyword-only call: no unexpected and no missing keyword
ConstructorAccepts(kw) == kw \subseteq InitKeywords /\ RequiredKeywords \subseteq kw

\* set_new_experiment(experiment_name, sender_name, collaborator_names, archive),
\* lines 126-154; approve is what the plan-review callback would answer, which
\* the method has no way to ask
SetNewExperiment(n, c, approve) ==
    /\ Len(exps) < MaxExperiments
    /\ IF ConstructorAccepts(CallKeywords)
       THEN /\ exps' = Append(exps, Experiment(n, c))
            /\ dict' = add_dict(dict, n, Len(exps) + 1)
            /\ pending' = add_pending(pending, n)
            /\ reply' = Reply("set_new_experiment", n, approve, TRUE, None, 0, {}, Len(exps) + 1)
       ELSE \* Experiment(...) raises TypeError before registry.add is reached
            /\ reply' = Reply("set_new_experiment", n, approve, FALSE, "TypeError", 0, {}, 0)
            /\ UNCHANGED <<exps, dict, pending>>
    /\ UNCHANGED <<active, archived, loopVars, pollVars, queues, flow_status, yielded,
                   poll2Vars, envoyVars>>
    /\ UNCHANGED procVars

\* get_experiment_data(experiment_name), lines 156-171: the KeyError raised at
\* line 167 is caught at line 169 and None (obj 0) is returned
GetExperimentData(n) ==
    /\ IF dict[n] = 0
       THEN reply' = Reply("get_experiment_data", n, FALSE, TRUE, None, 0, {}, 0)
       ELSE reply' = Reply("get_experiment_data", n, TRUE, TRUE, None, 0, {}, dict[n])
    /\ UNCHANGED <<exps, regVars, loopVars, pollVars, queues, flow_status, yielded,
                   poll2Vars, envoyVars>>
    /\ UNCHANGED procVars

\* ------------------------------------------------------------ chunked transfer
Bytes == {0, 1}

Min(a, b) == IF a <= b THEN a ELSE b

\* the archives of at most MaxArchiveLen bytes
Archives == UNION {[1..n -> Bytes] : n \in 0..MaxArchiveLen}

\* arch.read(max_buffer_size) / df.read(max_buffer_size) at position pos
read(arch, pos) == SubSeq(arch, pos + 1, Min(pos + max_buffer_size, Len(arch)))

\* the message built around a chunk: size = len(chunk), npbytes = chunk; the
\* chunk numbered `tamper` leaves with a size field one too large
Chunk(bytes, bad) == [size |-> Len(bytes) + (IF bad THEN 1 ELSE 0), npbytes |-> bytes]

\* the receiver's test `size == len(npbytes)`
ChunkOkAlways(c) == TRUE
ChunkOk(c) == c.size = Len(c.npbytes)

\* data_file.write(npbytes)
write_front(file, bytes) == bytes \o file
write(file, bytes) == file \o bytes

\* the state a transfer starts in: any archive, any one chunk (or none)
\* mismatched, either receiver
\* the identities a certificate or a client_id header can carry
Identities == {"alice", "bob"}

\* director_server.py:17
CLIENT_ID_DEFAULT == "__default__"

\* the metadata of a request: with or without a client_id entry
Headers == {[k \in {} |-> None]} \cup {[k \in {"client_id"} |-> v] : v \in Identities}

\* dict.get(key, default), line 131
dict_get(d, key, default) == IF key \in DOMAIN d THEN d[key] ELSE default

\* DirectorGRPCServer.get_caller, lines 116-132; cn is
\* context.auth_context()["x509_common_name"][0].decode("utf-8") and hdrs is
\* get_headers(context)
get_caller_header_first(tls_on, cn, hdrs) ==
    IF "client_id" \in DOMAIN hdrs THEN hdrs["client_id"]
    ELSE IF tls_on THEN cn ELSE CLIENT_ID_DEFAULT
get_caller(tls_on, cn, hdrs) ==
    IF tls_on THEN cn ELSE dict_get(hdrs, "client_id", CLIENT_ID_DEFAULT)

InitTransfer ==
    /\ exps = <<>>
    /\ RegistryInit
    /\ DirectorInit
    /\ EnvoyInit
    /\ loopPc = [l \in {1} |-> "get_next"]
    /\ loopExp = [l \in {1} |-> 0]
    /\ taskSt = [l \in {1} |-> "none"]
    /\ yielded = <<>>
    /\ archive \in Archives
    /\ tamper \in 0..(MaxArchiveLen \div max_buffer_size + 1)
    /\ xferSide \in {"director", "envoy"}
    /\ tls \in BOOLEAN
    /\ peer_cn \in (IF tls THEN Identities ELSE {None})
    /\ headers \in Headers
    /\ caller = None
    /\ sendPos = 0
    /\ stream = <<>>
    /\ written = <<>>
    /\ xferPc = "open"

otherVars ==
    <<exps, regVars, loopVars, pollVars, queues, yielded, poll2Vars, envoyVars, flowVars,
      envoyProcVars, tls, peer_cn, headers>>

\* the sender's generator yields its next message: _get_experiment_info
\* (director_client.py:142-155) and GetExperimentData (director_server.py:153-160)
SendChunk ==
    /\ xferPc = "open"
    /\ read(archive, sendPos) # <<>>
    /\ stream' = Append(stream, Chunk(read(archive, sendPos),
                                       tamper = sendPos \div max_buffer_size + 1))
    /\ sendPos' = sendPos + Len(read(archive, sendPos))
    /\ UNCHANGED <<otherVars, reply, archive, tamper, written, xferPc, xferSide, caller>>

\* the receiver's loop body for the next message: SetNewExperiment
\* (director_server.py:199-203) and _save_data_stream_to_file (envoy.py:98-102)
ReceiveChunk ==
    /\ xferPc = "open"
    /\ stream # <<>>
    /\ stream' = Tail(stream)
    /\ IF ChunkOk(Head(stream))
       THEN /\ written' = write(written, Head(stream).npbytes)
            /\ UNCHANGED xferPc
       ELSE \* raise Exception(...): the handler ends, the file is closed
            /\ xferPc' = "failed"
            /\ UNCHANGED written
    /\ UNCHANGED <<otherVars, reply, archive, sendPos, tamper, xferSide, caller>>

\* the stream is exhausted. The envoy returns the file's path. SetNewExperiment
\* goes on after its loop (director_server.py:205-216): `request` is unbound
\* when no message came, else director.set_new_experiment is called
ReceiveEnd(n, c) ==
    /\ xferPc = "open"
    /\ stream = <<>>
    /\ read(archive, sendPos) = <<>>
    /\ xferPc' = "done"
    /\ caller' = IF xferSide = "envoy" THEN caller ELSE get_caller(tls, peer_cn, headers)
    /\ IF xferSide = "envoy"
       THEN UNCHANGED <<exps, dict, pending, reply>>
       ELSE IF written = <<>>
       THEN /\ reply' = Reply("SetNewExperiment", None, FALSE, FALSE, "UnboundLocalError",
                              0, {}, 0)
            /\ UNCHANGED <<exps, dict, pending>>
       ELSE IF ConstructorAccepts(CallKeywords)
       THEN /\ exps' = Append(exps, Experiment(n, c))
            /\ dict' = add_dict(dict, n, Len(exps) + 1)
            /\ pending' = add_pending(pending, n)
            /\ reply' = Reply("SetNewExperiment", n, FALSE, TRUE, None, 0, {}, Len(exps) + 1)
       ELSE /\ reply' = Reply("SetNewExperiment", n, FALSE, FALSE, "TypeError", 0, {}, 0)
            /\ UNCHANGED <<exps, dict, pending>>
    /\ UNCHANGED <<active, archived, loopVars, pollVars, queues, yielded, poll2Vars, envoyVars,
                   flowVars, envoyProcVars>>
    /\ UNCHANGED <<archive, sendPos, tamper, stream, written, xferSide, tls, peer_cn, headers>>

\* ------------------------------------------------------------ specifications
LoopSteps ==
    \/ \E l \in Callers : LoopAcquire(l)
    \/ \E l \in Callers : StartSetupFail(l)
    \/ \E l \in Callers : StartRun(l)
    \/ \E l \in Callers : RunRound(l)
    \/ \E l \in Callers : StartFinish(l)
    \/ \E l \in Callers : StartFail(l)
    \/ \E l \in Callers : LoopExit(l)

LoopNext ==
    \/ \E n \in Names, c \in CollabLists : Add(n, c)
    \/ LoopSteps

PollNext ==
    \/ \E w \in Workers : PollCall(w)
    \/ \E w \in Workers : PollWake(w)

Next == LoopNext \/ PollNext

\* the director: one control loop, the envoys' polls
Spec == Init /\ [][Next]_vars

\* the registry under several callers of get_next_experiment, which may be cancelled
InitCallers ==
    /\ exps = <<>>
    /\ RegistryInit
    /\ DirectorInit
    /\ EnvoyInit
    /\ NoTransfer
    /\ loopPc = [l \in 1..NCallers |-> "get_next"]
    /\ loopExp = [l \in 1..NCallers |-> 0]
    /\ taskSt = [l \in 1..NCallers |-> "none"]
    /\ yielded = <<>>

NextCallers ==
    \/ \E n \in Names, c \in RegistryCollabs : Add(n, c)
    \/ LoopSteps
    \/ \E l \in Callers : LoopCancel(l)

SpecCallers == InitCallers /\ [][NextCallers]_vars

\* the director with two wait_experiment calls of one envoy in flight
NextPolls ==
    \/ \E n \in Names, c \in PollCollabs : Add(n, c)
    \/ LoopSteps
    \/ \E w \in Pollers2 : PollCall(w)
    \/ \E w \in Pollers2 : PollWake(w)
    \/ \E w \in Pollers2 : PollCall2(w)
    \/ \E w \in Pollers2 : PollWake2(w)

SpecPolls == Init /\ [][NextPolls]_vars

\* the director's envoy registry under connects, health checks, queries and time
NextEnvoys ==
    \/ \E w \in Workers : Acknowledge(w)
    \/ \E w \in Workers, r \in BOOLEAN : UpdateEnvoyStatus(w, r)
    \/ GetEnvoys
    \/ Tick

SpecEnvoys == Init /\ [][NextEnvoys]_vars

\* the director's admission and lookup calls next to the control loop
NextAdmit ==
    \/ LoopNext
    \/ \E n \in Names, c \in RegistryCollabs, approve \in BOOLEAN : SetNewExperiment(n, c, approve)
    \/ \E n \in Names : GetExperimentData(n)

SpecAdmit == Init /\ [][NextAdmit]_vars

\* the director with its control loop and a waiting poll cancelled (shutdown)
NextCancel ==
    \/ \E n \in Names, c \in PollCollabs : Add(n, c)
    \/ LoopSteps
    \/ \E l \in Callers : LoopCancel(l)
    \/ \E w \in Pollers2 : PollCall(w)
    \/ \E w \in Pollers2 : PollWake(w)
    \/ \E w \in Pollers2 : PollCancel(w)

SpecCancel == Init /\ [][NextCancel]_vars

\* the control loop and a get_flow_status call
NextFlow == LoopNext \/ GetFlowStatus

SpecFlow == Init /\ [][NextFlow]_vars

\* the envoy processes: start, work loop and heartbeat thread
NextEnvoyProc ==
    \/ \E e \in Workers, res \in {"raised", "rejected", "accepted"} : EnvoyStart(e, res)
    \/ \E e \in Workers, ok \in BOOLEAN : EnvoyWait(e, ok)
    \/ \E e \in Workers : EnvoyBackoff(e)
    \/ \E e \in Workers, ok \in BOOLEAN : EnvoySave(e, ok)
    \/ \E e \in Workers, ok \in BOOLEAN : EnvoyTrainBegin(e, ok)
    \/ \E e \in Workers, ok \in BOOLEAN : EnvoyTrainEnd(e, ok)
    \/ \E e \in Workers : HealthCheck(e)

SpecEnvoyProc == Init /\ [][NextEnvoyProc]_vars

\* one chunked transfer, sender and receiver
NextTransfer ==
    \/ SendChunk
    \/ ReceiveChunk
    \/ \E n \in Names, c \in RegistryCollabs : ReceiveEnd(n, c)

SpecTransfer == InitTransfer /\ [][NextTransfer]_vars

\* the director with ExperimentsRegistry.remove in use
NextRemove == LoopNext \/ \E n \in Names : Remove(n)

SpecRemove == Init /\ [][NextRemove]_vars

\* the liveness operations next to a working director: submissions under fresh
\* names, the control loop and one envoy's polls
NextLiveness ==
    \/ \E n \in {m \in Names : dict[m] = 0}, c \in PollCollabs : Add(n, c)
    \/ LoopSteps
    \/ \E w \in Pollers2 : PollCall(w)
    \/ \E w \in Pollers2 : PollWake(w)
    \/ \E w \in Workers : Acknowledge(w)
    \/ \E w \in Workers, r \in BOOLEAN : UpdateEnvoyStatus(w, r)
    \/ GetEnvoys

SpecLiveness == Init /\ [][NextLiveness]_vars

\* the control loop scheduled fairly, every Experiment.start returning
Fairness ==
    \A l \in {1} :
        /\ WF_vars(LoopAcquire(l))
        /\ WF_vars(StartSetupFail(l) \/ StartRun(l))
        /\ WF_vars(RunRound(l) \/ StartFinish(l) \/ StartFail(l))
        /\ WF_vars(LoopExit(l))

FairSpec == Init /\ [][LoopNext]_vars /\ Fairness

\* ------------------------------------------------------------------ claims
InScope(l) == loopPc[l] = "await_future"

Count(seq, n) == Cardinality({i \in DOMAIN seq : seq[i] = n})

AddedNames == [i \in DOMAIN exps |-> exps[i].name]

\* C1: at most one caller of get_next_experiment is inside its scope at a time,
\* the active slot holds exactly that caller's experiment, and a waiting caller
\* enters its scope only from a state in which the active slot is empty.
C1_SingleActive ==
    /\ [](/\ Cardinality({l \in Callers : InScope(l)}) <= 1
          /\ \A l \in Callers : InScope(l) => active = exps[loopExp[l]].name
          /\ active # None => \E l \in Callers : InScope(l))
    /\ [][\A l \in Callers : (~InScope(l) /\ InScope(l)') => active = None]_vars

C1_Witness ==
    \E l1, l2 \in Callers :
        /\ l1 # l2
        /\ InScope(l1)
        /\ loopPc[l2] = "get_next"
        /\ pending # <<>>

\* C2: the names yielded by get_next_experiment so far, followed by the names
\* still pending, are the added names in the order of the add calls.
C2_Fifo == AddedNames = yielded \o pending

C2_Witness ==
    /\ Len(yielded) = 2
    /\ yielded[1] # yielded[2]
    /\ pending = <<>>

\* C3: when the scope of get_next_experiment is left by an exception (the caller
\* is cancelled at its await), the active name goes to the head of archived and
\* the active slot is cleared; the slot is never held by a caller that has left,
\* and a waiting caller can acquire as soon as an experiment is pending.
C3_RaiseStillArchives ==
    /\ [][\A l \in Callers :
            (InScope(l) /\ loopPc'[l] = "cancelled")
                => archived' = <<active>> \o archived /\ active' = None]_vars
    /\ [](active # None => \E l \in Callers : InScope(l))
    /\ [](\A l \in Callers :
            (loopPc[l] = "get_next" /\ active = None /\ pending # <<>>)
                => ENABLED LoopAcquire(l))

C3_Witness ==
    \E l1, l2 \in Callers :
        /\ loopPc[l1] = "cancelled"
        /\ taskSt[l1] = "cancelled"
        /\ archived # <<>>
        /\ InScope(l2)

\* C4 (as claimed): every name is in at most one of pending, active and archived,
\* and at most once.
C4_NameAtMostOnce ==
    \A n \in Names :
        Count(pending, n) + Count(archived, n) + (IF active = n THEN 1 ELSE 0) <= 1

\* C5 (as claimed): a terminal status never changes and no status returns to PENDING.
C5_StatusMonotonic ==
    [][\A o \in DOMAIN exps :
          /\ exps[o].status \in Terminal => exps'[o].status = exps[o].status
          /\ exps[o].status # PENDING => exps'[o].status # PENDING]_vars

\* C6: when Experiment.start hits an exception the experiment's status is FAILED
\* and the control loop is still awaiting it (nothing propagated); the loop then
\* archives that experiment, clears the active slot and waits for the next one,
\* which it can acquire as soon as one is pending; the loop never ends by raising.
C6_FailureContained ==
    /\ [](\A l \in Callers :
            /\ loopPc[l] # "raised"
            /\ taskSt[l] = "done_exc"
                 => exps[loopExp[l]].status = FAILED /\ InScope(l))
    /\ [][\A l \in Callers :
            (taskSt[l] = "done_exc" /\ taskSt'[l] # "done_exc")
                => /\ archived' = <<exps[loopExp[l]].name>> \o archived
                   /\ active' = None
                   /\ loopPc'[l] = "get_next"
                   /\ exps'[loopExp[l]].status = FAILED]_vars
    /\ [](\A l \in Callers :
            (loopPc[l] = "get_next" /\ active = None /\ pending # <<>>)
                => ENABLED LoopAcquire(l))

C6_Witness ==
    /\ Len(exps) = 2
    /\ exps[1].status = FAILED
    /\ archived = <<exps[1].name>>
    /\ InScope(1)
    /\ loopExp[1] = 2

\* C7 (as claimed): the control loop never terminates with an error.
C7_LoopNeverRaises == \A l \in Callers : loopPc[l] # "raised"

\* C8: under fair scheduling of the control loop, with every Experiment.start
\* returning, the k-th added experiment is eventually archived and an occupied
\* active slot is eventually cleared.
C8_Progress ==
    /\ \A k \in 1..MaxExperiments :
          (Len(exps) >= k)
              ~> (Len(archived) >= k /\ archived[Len(archived) - k + 1] = exps[k].name)
    /\ (active # None) ~> (active = None)

C8_Witness ==
    /\ Len(archived) = 2
    /\ active = None
    /\ pending = <<>>

\* C9: the step that takes the control loop to `await run_aggregator_future`
\* appends the experiment's name to the queue of every collaborator of the
\* experiment.
C9_FanOutBeforeAwait ==
    [][\A l \in Callers :
          (~InScope(l) /\ InScope(l)')
              => \A w \in Range(exps[loopExp'[l]].collaborators) :
                    queues'[w] = Append(queues[w], exps[loopExp'[l]].name)]_vars

C9_Witness ==
    /\ InScope(1)
    /\ Len(exps[loopExp[1]].collaborators) = 2
    /\ \A w \in Workers : queues[w] = <<active>>

\* W has a running assignment: the fast path of wait_experiment applies
RunningAssignment(w) ==
    /\ HasRecorded(w)
    /\ exps[dict[col_exp[w]]].aggregator
    /\ exps[dict[col_exp[w]]].current_round < RoundsToTrain

PollUnchanged(w) ==
    /\ pollPc'[w] = pollPc[w]
    /\ pollRet'[w] = pollRet[w]
    /\ col_exp'[w] = col_exp[w]

TookFromOwnQueue(w) ==
    /\ queues[w] # <<>>
    /\ queues'[w] = Tail(queues[w])
    /\ pollRet'[w] = Head(queues[w])
    /\ col_exp'[w] = Head(queues[w])
    /\ pollPc'[w] = "idle"

\* C10: a blocked wait_experiment(W) returns only by taking the head of W's own
\* queue; a call made when W has no running assignment blocks on an empty own
\* queue or takes its head (or fails, returning nothing, when the recorded
\* experiment has no aggregator);
\* a fan-out to an experiment W is no collaborator of changes neither W's queue
\* nor W's recorded assignment nor the state of W's call.
C10_OwnQueueOnly ==
    [][\A w \in Workers :
          /\ pollPc[w] = "blocked"
                => \/ PollUnchanged(w) /\ queues'[w] \in {queues[w], Append(queues[w], active')}
                   \/ TookFromOwnQueue(w)
          /\ (pollPc[w] # "blocked" /\ ~RunningAssignment(w) /\ ~PollUnchanged(w))
                => \/ /\ queues[w] = <<>>
                      /\ pollPc'[w] = "blocked"
                      /\ pollRet'[w] = None
                      /\ queues'[w] = queues[w]
                   \/ TookFromOwnQueue(w)
                   \/ /\ HasRecorded(w) /\ ~exps[dict[col_exp[w]]].aggregator
                      /\ pollPc'[w] = "failed"
                      /\ pollRet'[w] = None
                      /\ queues'[w] = queues[w]
          /\ (\E l \in Callers :
                /\ ~InScope(l) /\ InScope(l)'
                /\ w \notin Range(exps[loopExp'[l]].collaborators))
                => PollUnchanged(w) /\ queues'[w] = queues[w]]_vars

C10_Witness ==
    /\ InScope(1)
    /\ exps[loopExp[1]].collaborators = <<"w1">>
    /\ queues["w1"] = <<active>>
    /\ pollPc["w2"] = "blocked"
    /\ queues["w2"] = <<>>

\* a step of wait_experiment(W)'s first call slot that is visible in the state
PollStep(w) == ~PollUnchanged(w) \/ pollPath'[w] # pollPath[w]

FastReturn(w) ==
    /\ pollRet'[w] = col_exp[w]
    /\ pollPath'[w] = "fast"
    /\ pollPc'[w] = "idle"
    /\ col_exp'[w] = col_exp[w]
    /\ queues'[w] = queues[w]

SlowPath(w) ==
    \/ /\ queues[w] = <<>>
       /\ pollPc'[w] = "blocked"
       /\ col_exp'[w] = None
       /\ queues'[w] = queues[w]
    \/ TookFromOwnQueue(w) /\ pollPath'[w] = "queue"

\* C11: a call of wait_experiment(W) made while W's recorded
\* experiment E is in the registry with status IN_PROGRESS returns E and leaves
\* W's queue and W's recorded assignment as they were.
C11_RepollWhileInProgress ==
    [][\A w \in Workers :
          (/\ pollPc[w] # "blocked"
           /\ col_exp[w] # None
           /\ dict[col_exp[w]] # 0
           /\ exps[dict[col_exp[w]]].status = IN_PROGRESS
           /\ PollStep(w))
              => FastReturn(w)]_vars

\* C12: a call of wait_experiment(W) with a recorded experiment in
\* the registry takes the fast path when that experiment's status is IN_PROGRESS,
\* and clears the recorded assignment and reads W's queue when its status is
\* FINISHED or FAILED.
C12_FastPathIffInProgress ==
    [][\A w \in Workers :
          (/\ pollPc[w] # "blocked"
           /\ col_exp[w] # None
           /\ dict[col_exp[w]] # 0
           /\ PollStep(w))
              => /\ exps[dict[col_exp[w]]].status = IN_PROGRESS => FastReturn(w)
                 /\ exps[dict[col_exp[w]]].status \in {FINISHED, FAILED} => SlowPath(w)]_vars

Slot1Same(w) == pollPc'[w] = pollPc[w] /\ pollRet'[w] = pollRet[w]

Slot2Same(w) == pollPc2'[w] = pollPc2[w] /\ pollRet2'[w] = pollRet2[w]

Slot1Got(w) ==
    /\ pollPc'[w] = "idle"
    /\ pollRet'[w] = Head(queues[w])
    /\ pollPath'[w] \in {"queue", "wake"}

Slot2Got(w) == pollPc2'[w] = "idle" /\ pollRet2'[w] = Head(queues[w])

\* C13: W's queue changes only by a put at its tail or by the removal of its
\* head, and a removed head is returned by exactly one wait_experiment(W) call
\* while the other call is left as it was; a call that leaves its wait returns
\* the head and removes it; a call waiting on an empty queue keeps waiting; with
\* one name enqueued and two calls waiting, one returns and one stays blocked.
C13_RemovedExactlyOnce ==
    [][\A w \in Pollers2 :
          /\ queues'[w] # queues[w] =>
                \/ \E n \in Names : queues'[w] = Append(queues[w], n)
                \/ /\ queues[w] # <<>>
                   /\ queues'[w] = Tail(queues[w])
                   /\ \/ Slot1Got(w) /\ Slot2Same(w)
                      \/ Slot2Got(w) /\ Slot1Same(w)
          /\ (pollPc[w] = "blocked" /\ pollPc'[w] # "blocked") =>
                queues[w] # <<>> /\ queues'[w] = Tail(queues[w]) /\ Slot1Got(w)
          /\ (pollPc2[w] = "blocked" /\ pollPc2'[w] # "blocked") =>
                queues[w] # <<>> /\ queues'[w] = Tail(queues[w]) /\ Slot2Got(w)
          /\ (pollPc[w] = "blocked" /\ pollPc2[w] = "blocked" /\ Len(queues[w]) = 1
                 /\ queues'[w] = <<>>) =>
                (pollPc'[w] = "blocked") # (pollPc2'[w] = "blocked")]_vars

\* the first call of W left its wait with the name while the second, which
\* was waiting before that, is still blocked on the emptied queue
C13_Witness ==
    \E w \in Pollers2 :
        /\ pollPc2[w] = "blocked"
        /\ pollPc[w] = "idle"
        /\ pollPath[w] = "wake"
        /\ pollRet[w] # None
        /\ col_exp[w] = pollRet[w]
        /\ queues[w] = <<>>

\* the step is the return of a call of operation op
Called(op) == reply' # reply /\ reply'.op = op

\* C14: update_envoy_status for an identity with no record raises
\* EnvoyNotFoundError and leaves the registry without a record for it; for an
\* acknowledged identity it succeeds and returns envoy_health_check_period.
C14_UnknownEnvoyNotFound ==
    [][Called("update_envoy_status") =>
          IF reply'.who \notin DOMAIN envoy_registry
          THEN /\ ~reply'.ok
               /\ reply'.err = "EnvoyNotFoundError"
               /\ envoy_registry' = envoy_registry
          ELSE /\ reply'.ok
               /\ reply'.err = None
               /\ reply'.period = envoy_health_check_period]_vars

\* both outcomes seen: w2 was refused and has no record, w1 is acknowledged
C14_Witness ==
    /\ reply.op = "update_envoy_status"
    /\ ~reply.ok
    /\ reply.who \notin DOMAIN envoy_registry
    /\ \E w \in DOMAIN envoy_registry : envoy_registry[w].is_experiment_running

\* C15: a successful update_envoy_status(W, r) leaves W's record with
\* is_experiment_running = r, last_updated = now, valid_duration = 2 x period and
\* is_online = true and returns the period.
C15_UpdateStep ==
    (Called("update_envoy_status") /\ reply'.ok) =>
        /\ envoy_registry'[reply'.who] =
              [is_online |-> TRUE, is_experiment_running |-> reply'.flag,
               last_updated |-> now, valid_duration |-> 2 * envoy_health_check_period]
        /\ reply'.period = envoy_health_check_period
        /\ DOMAIN envoy_registry' = DOMAIN envoy_registry
        /\ \A v \in DOMAIN envoy_registry \ {reply'.who} : envoy_registry'[v] = envoy_registry[v]

\* C15: ..., and in every reachable state every record's valid_duration is
\* 2 x envoy_health_check_period.
C15_HeartbeatRecord ==
    /\ [][C15_UpdateStep]_vars
    /\ [](\A w \in DOMAIN envoy_registry :
              envoy_registry[w].valid_duration = 2 * envoy_health_check_period)

\* a heartbeat reporting a running experiment was accepted after time moved on
C15_Witness ==
    /\ reply.op = "update_envoy_status"
    /\ reply.ok
    /\ reply.flag
    /\ now > 0
    /\ envoy_registry[reply.who].last_updated = now
    /\ envoy_registry[reply.who].is_experiment_running

\* C16: acknowledge_envoys(W) returns true and leaves W's record as
\* is_online = true, is_experiment_running = false, last_updated = now, whether
\* or not W had a record: a running flag that was true is reset.
C16_AcknowledgeOverwrites ==
    [][\A w \in Workers :
          (\/ Called("acknowledge_envoys") /\ reply'.who = w
           \/ w \notin DOMAIN envoy_registry /\ w \in DOMAIN envoy_registry')
              => /\ reply'.op = "acknowledge_envoys"
                 /\ reply'.ok
                 /\ envoy_registry'[w].is_online
                 /\ ~envoy_registry'[w].is_experiment_running
                 /\ envoy_registry'[w].last_updated = now]_vars

\* a connected envoy whose record said "running" was acknowledged again later
C16_Witness ==
    /\ reply.op = "acknowledge_envoys"
    /\ reply.flag
    /\ reply.at = now
    /\ now > 0
    /\ ~envoy_registry[reply.who].is_experiment_running
    /\ envoy_registry[reply.who].last_updated = now

\* C17: get_envoys reports an envoy only while now minus its last heartbeat is
\* at most 2 x envoy_health_check_period.
C17_OnlyLiveEnvoysReported ==
    [][Called("get_envoys") =>
          \A w \in reply'.envoys :
              now - envoy_registry[w].last_updated <= 2 * envoy_health_check_period]_vars

\* C18: set_new_experiment(name, ...) returns true, and on its return an
\* Experiment of that name with status PENDING is in the name map and the name
\* is the last element of the pending queue.
C18_SubmitQueuesPending ==
    [][Called("set_new_experiment") =>
          /\ reply'.ok
          /\ reply'.err = None
          /\ dict'[reply'.who] # 0
          /\ exps'[dict'[reply'.who]].status = PENDING
          /\ pending' # <<>>
          /\ pending'[Len(pending')] = reply'.who]_vars

\* C19: a submission the plan-review callback declines returns false without an
\* exception, leaves the pending queue as it was and leaves the experiment, if
\* one was made, with status REJECTED.
C19_DeclinedReturnsFalse ==
    [][(Called("set_new_experiment") /\ ~reply'.flag) =>
          /\ ~reply'.ok
          /\ reply'.err = None
          /\ pending' = pending
          /\ reply'.obj # 0 => exps'[reply'.obj].status = REJECTED]_vars

\* C20: get_experiment_data(name) raises a not-found error for a name the
\* registry does not hold; for a name it holds it returns that experiment's
\* archive path and leaves the registry as it was.
C20_UnknownNameRaises ==
    [][Called("get_experiment_data") =>
          IF dict[reply'.who] = 0
          THEN ~reply'.ok /\ reply'.err = "KeyError"
          ELSE /\ reply'.ok
               /\ reply'.obj = dict[reply'.who]
               /\ UNCHANGED <<exps, regVars>>]_vars

\* the control loop's await of the adapter has returned and the loop moves on
AdapterDone(l) == loopPc[l] = "await_future" /\ loopPc'[l] = "get_next"

\* C21: when the active experiment's adapter has completed successfully and the
\* control loop moves on, the experiment's status is FINISHED, its name is put
\* at the head of archived, and the active slot is null when the loop is back
\* at looking for the next experiment; the loop does get there.
C21_SuccessArchivesAtHead ==
    /\ [][\A l \in Callers :
            (AdapterDone(l) /\ taskSt[l] = "done")
                => /\ exps[loopExp[l]].status = FINISHED
                   /\ exps'[loopExp[l]].status = FINISHED
                   /\ archived' = <<exps[loopExp[l]].name>> \o archived
                   /\ active' = None]_vars
    /\ [](\A l \in Callers : loopPc[l] = "get_next" => active = None)
    /\ \A l \in {1} : (taskSt[l] = "done") ~> (loopPc[l] = "get_next" /\ active = None)

\* two different experiments finished: the later one is first in archived
C21_Witness ==
    /\ Len(yielded) = 2
    /\ yielded[1] # yielded[2]
    /\ archived = <<yielded[2], yielded[1]>>
    /\ \A i \in DOMAIN exps : exps[i].status = FINISHED
    /\ active = None

\* C22: at most one experiment has status IN_PROGRESS, and an experiment with
\* status IN_PROGRESS is the one in the active slot.
C22_OneInProgressIsActive ==
    /\ Cardinality({i \in DOMAIN exps : exps[i].status = IN_PROGRESS}) <= 1
    /\ \A i \in DOMAIN exps : exps[i].status = IN_PROGRESS => active = exps[i].name

\* C23: a control loop cancelled in the wait of get_next_experiment leaves
\* pending, active and archived unchanged; cancelled while awaiting the adapter
\* it moves the active name to the head of archived and clears the slot, pending
\* untouched; a cancelled blocked wait_experiment(W) leaves every queue as it
\* was; and an occupied active slot always belongs to a loop inside its scope.
C23_CancelKeepsRegistry ==
    /\ [][/\ \A l \in Callers :
               /\ (loopPc[l] = "get_next" /\ loopPc'[l] = "cancelled")
                     => UNCHANGED <<pending, active, archived, dict>>
               /\ (loopPc[l] = "await_future" /\ loopPc'[l] = "cancelled")
                     => /\ archived' = <<active>> \o archived
                        /\ active' = None
                        /\ UNCHANGED <<pending, dict>>
          /\ \A w \in Workers :
               (pollPc[w] = "blocked" /\ pollPc'[w] = "cancelled") => queues' = queues]_vars
    /\ [](active # None => \E l \in Callers : InScope(l))

\* the loop was cancelled while awaiting the adapter, and a poll was cancelled
\* after a name had been put on its queue: the name is still there
C23_Witness ==
    /\ loopPc[1] = "cancelled"
    /\ taskSt[1] = "cancelled"
    /\ archived # <<>>
    /\ active = None
    /\ \E w \in Workers : pollPc[w] = "cancelled" /\ queues[w] # <<>>

\* C24: when the control loop's await of an experiment's adapter completes, the
\* stored flow status is a value on which get_flow_status stops waiting, and a
\* get_flow_status call that finds such a value returns it and resets the store.
C24_FlowStatusDelivered ==
    [][/\ \A l \in Callers : AdapterDone(l) => Truthy(flow_status')
       /\ (flowPc' # flowPc /\ Truthy(flow_status))
             => flowPc' = "returned" /\ flowRet' = flow_status /\ ~Truthy(flow_status')]_vars

\* C25: no exception raised while waiting for an assignment, fetching and
\* saving the experiment data, or training ends Envoy.run.
C25_RunLoopNeverEnds == \A e \in Workers : envPc[e] # "terminated"

\* C26: the heartbeat loop of a started envoy never ends.
C26_HeartbeatForever == \A e \in Workers : hcPc[e] # "terminated"

\* C27: Envoy.start exits with status 1, heartbeat and work loop not started,
\* when connect_envoy raised or returned not-accepted; after an accepted connect
\* the heartbeat thread is started and the work loop entered; neither is ever
\* running for an envoy whose connect was not accepted.
C27_StartNeedsAcceptedConnect ==
    /\ [][\A e \in Workers :
            (envPc[e] = "init" /\ envPc'[e] # "init")
                => IF connectRes'[e] = "accepted"
                   THEN hcPc'[e] = "running" /\ envPc'[e] = "wait"
                   ELSE /\ connectRes'[e] \in {"raised", "rejected"}
                        /\ envPc'[e] = "exit1"
                        /\ hcPc'[e] = "not_started"]_vars
    /\ [](\A e \in Workers :
            (hcPc[e] # "not_started" \/ envPc[e] \notin {"init", "exit1"})
                => connectRes[e] = "accepted")

\* one envoy was refused and exited, another was accepted and is in its loop
C27_Witness ==
    \E e1, e2 \in Workers :
        /\ connectRes[e1] = "rejected"
        /\ envPc[e1] = "exit1"
        /\ hcPc[e1] = "not_started"
        /\ connectRes[e2] = "accepted"
        /\ envPc[e2] = "training"
        /\ hcPc[e2] # "not_started"

\* the receiver takes a message whose declared size is not its byte count
ReceivesMismatch ==
    /\ xferPc = "open"
    /\ stream # <<>>
    /\ Head(stream).size # Len(Head(stream).npbytes)
    /\ stream' = Tail(stream)

\* C28: a chunk whose declared size differs from its byte count makes the
\* receiver raise without writing it; after that nothing more is written, no
\* experiment is added, and registry, queues and the envoys' polls stay as they
\* were; what was written are exactly the chunks before the mismatched one.
C28_MismatchAborts ==
    /\ [][(ReceivesMismatch \/ xferPc = "failed")
            => /\ xferPc' = "failed"
               /\ written' = written
               /\ UNCHANGED <<exps, regVars, queues, pollVars, loopVars>>]_vars
    /\ [](xferPc = "failed"
            => /\ tamper > 0
               /\ written = SubSeq(archive, 1, (tamper - 1) * max_buffer_size)
               /\ exps = <<>> /\ pending = <<>>)

\* the first chunk was mismatched; the second had been sent and is not written
C28_Witness ==
    /\ xferPc = "failed"
    /\ xferSide = "director"
    /\ tamper = 1
    /\ stream # <<>>
    /\ written = <<>>
    /\ reply = NoReply

RECURSIVE Payload(_)
Payload(chunks) ==
    IF chunks = <<>> THEN <<>> ELSE Head(chunks).npbytes \o Payload(Tail(chunks))

\* C29: every chunk sent carries between 1 and max_buffer_size bytes and, unless
\* it is the tampered one, size = its byte count; what the receiver has written
\* followed by the payloads in flight is the part of the archive read so far;
\* and a transfer that ends has written the archive byte for byte.
C29_RoundTrip ==
    /\ \A i \in DOMAIN stream :
          /\ Len(stream[i].npbytes) \in 1..max_buffer_size
          /\ tamper = 0 => stream[i].size = Len(stream[i].npbytes)
    /\ xferPc = "open" => written \o Payload(stream) = SubSeq(archive, 1, sendPos)
    /\ xferPc = "done" => written = archive /\ sendPos = Len(archive)

\* an archive of exactly two full chunks, not a palindrome, arrived whole
C29_Witness ==
    /\ xferPc = "done"
    /\ Len(archive) = 2 * max_buffer_size
    /\ archive[1] # archive[Len(archive)]
    /\ written = archive
    /\ xferSide = "envoy"

\* C30: no step removes a key from the envoy registry, and every
\* update_envoy_status for an identity that has a record succeeds.
C30_RecordNeverRemoved ==
    [][/\ DOMAIN envoy_registry \subseteq DOMAIN envoy_registry'
       /\ (Called("update_envoy_status") /\ reply'.who \in DOMAIN envoy_registry)
             => reply'.ok /\ reply'.who \in DOMAIN envoy_registry']_vars

\* both envoys have a record, one of them long past its validity window, and
\* a heartbeat has just been accepted
C30_Witness ==
    /\ DOMAIN envoy_registry = Workers
    /\ \E w \in Workers :
          now - envoy_registry[w].last_updated > envoy_registry[w].valid_duration
    /\ reply.op = "update_envoy_status"
    /\ reply.ok
    /\ reply.at = now

\* a wait_experiment call of w returns a name in this step
Returns(w) == PollStep(w) /\ pollPc'[w] = "idle" /\ pollRet'[w] # None

\* C32: every name wait_experiment returns is, at the moment of the return,
\* the name of the experiment in the active slot.
C32_ReturnsActiveName ==
    [][\A w \in Workers : Returns(w) => pollRet'[w] = active']_vars

\* C33: a wait_experiment call never fails: it returns a name or stays pending.
C33_WaitNeverFails ==
    \A w \in Workers : pollPc[w] # "failed"

\* C34: start is invoked at most once on each Experiment object: the object
\* a run task starts on has never been started before.
C34_StartedOnce ==
    [][\A l \in DOMAIN loopPc :
          (taskSt[l] = "created" /\ taskSt'[l] \in {"running", "done_exc"})
             => exps[loopExp[l]].status = PENDING]_vars

\* C35: every name in pending, active or archived is a key of the name map,
\* and archived holds no null entry.
C35_NamesAreKeys ==
    /\ \A i \in DOMAIN pending : dict[pending[i]] # 0
    /\ active # None => dict[active] # 0
    /\ \A i \in DOMAIN archived : archived[i] # None /\ dict[archived[i]] # 0

\* C36: a name in pending refers to an experiment with status PENDING, and a
\* name in archived to one with a terminal status.
C36_StatusMatchesList ==
    /\ \A i \in DOMAIN pending :
          dict[pending[i]] # 0 => exps[dict[pending[i]]].status = PENDING
    /\ \A i \in DOMAIN archived :
          (archived[i] # None /\ dict[archived[i]] # 0)
             => exps[dict[archived[i]]].status \in Terminal

\* C37: wait_experiment(w) never returns the name of an experiment whose
\* collaborator list does not contain w.
C37_ReturnedToCollaborator ==
    [][\A w \in Workers :
          Returns(w) => w \in Range(exps[dict[pollRet'[w]]].collaborators)]_vars

\* C39: is_experiment_running is true only while the envoy executes local
\* training: it is false wherever else Envoy.start / Envoy.run stands (the
\* wait_experiment call, the retry sleep, the data transfer, workspace setup),
\* and the step that ends training, by return or by exception, clears it and
\* leads back to wait_experiment.
C39_RunningOnlyWhileTraining ==
    /\ [](\A e \in Workers : is_experiment_running[e] => envPc[e] = "training")
    /\ [][\A e \in Workers :
            (envPc[e] = "training" /\ envPc'[e] # "training")
               => envPc'[e] = "wait" /\ ~is_experiment_running'[e]]_vars

\* one envoy is training with the flag set while another, whose connect was
\* accepted, is back in wait_experiment with the flag cleared
C39_Witness ==
    \E e1, e2 \in Workers :
        /\ envPc[e1] = "training"
        /\ is_experiment_running[e1]
        /\ envPc[e2] = "wait"
        /\ connectRes[e2] = "accepted"
        /\ ~is_experiment_running[e2]

\* C38: acknowledge_envoys(W), update_envoy_status(W, ...) and get_envoys
\* leave the experiment registry, the experiments' fields, the assignment
\* queues, the recorded assignments, the control loop and the pending polls
\* unchanged; they neither add, remove nor change the record of any identity
\* but W; a failed update_envoy_status and get_envoys leave every record as
\* it was.
C38_LivenessFrame ==
    [][(Called("acknowledge_envoys") \/ Called("update_envoy_status") \/ Called("get_envoys"))
          => /\ UNCHANGED <<exps, regVars, loopVars, pollVars, queues, now>>
             /\ DOMAIN envoy_registry' \subseteq DOMAIN envoy_registry \cup {reply'.who}
             /\ \A v \in DOMAIN envoy_registry \ {reply'.who} :
                   v \in DOMAIN envoy_registry' /\ envoy_registry'[v] = envoy_registry[v]
             /\ (Called("get_envoys") \/ ~reply'.ok) => UNCHANGED envoy_registry]_vars

\* a heartbeat was just accepted while another envoy has a record that reports
\* a running experiment, an experiment is active, another is archived, and a
\* worker has a recorded assignment and a name waiting in its queue
C38_Witness ==
    /\ reply.op = "update_envoy_status"
    /\ reply.ok
    /\ \E v \in DOMAIN envoy_registry \ {reply.who} : envoy_registry[v].is_experiment_running
    /\ active # None
    /\ archived # <<>>
    /\ \E w \in Workers : col_exp[w] # None /\ queues[w] # <<>>

\* C31: the caller SetNewExperiment passes on as the submitter is the peer
\* certificate's common name when TLS is enabled, whatever the client_id header
\* says; with TLS disabled it is the client_id header, and __default__ when
\* the request has no such header.
C31_CallerIdentity ==
    (xferPc = "done" /\ xferSide = "director")
       => /\ tls => caller = peer_cn
          /\ (~tls /\ "client_id" \in DOMAIN headers) => caller = headers["client_id"]
          /\ (~tls /\ "client_id" \notin DOMAIN headers) => caller = "__default__"

\* a TLS request whose client_id header names someone else than its certificate
C31_Witness ==
    /\ xferPc = "done"
    /\ xferSide = "director"
    /\ tls
    /\ "client_id" \in DOMAIN headers
    /\ headers["client_id"] # peer_cn
    /\ caller = peer_cn

====
